---- MODULE Spec2Model ----
(***************************************************************************)
(* GrGLProgramDescBuilder::Build and its helpers                           *)
(* (src/gpu/gl/GrGLProgramDesc.cpp).                                       *)
(*                                                                         *)
(* A uint32_t is the set of its one-bits (a subset of 0..31): & is \cap,   *)
(* | is \cup, << moves every bit up and loses those that leave 0..31.      *)
(* The key buffer desc->fKey is only ever grown in whole 32-bit words      *)
(* (kProcessorKeysOffset is a multiple of 4, add32/add32n append words),   *)
(* so it is a sequence of words; its byte count is 4 * Len.                *)
(***************************************************************************)
EXTENDS Integers, Sequences, FiniteSets, TLC

VARIABLES SK_DEBUG,   \* build flavour: SkASSERT is compiled in iff TRUE
          caps,       \* gpu->glCaps() / gpu->caps()
          optState,   \* const GrOptDrawState&
          descInfo,   \* const GrProgramDesc::DescInfo&
          drawType,   \* GrGpu::DrawType
          fKey,       \* desc->fKey
          fCount,     \* the count of GrProcessorKeyBuilder b
          pc,         \* position inside Build
          s,          \* index of the fragment stage loop
          ret,        \* value returned by Build
          keyed,      \* stages whose getGLProcessorKey has run, in order
          meta,       \* the last call of get_meta_key: arguments, locals, result
          prev        \* outcome of the previous call of Build on this desc

vars == <<SK_DEBUG, caps, optState, descInfo, drawType, fKey, fCount, pc, s,
          ret, keyed, meta, prev>>

-----------------------------------------------------------------------------
(* Bounds of the explored inputs *)
MaxFragStages == 2
MaxTextures == 17
MaxTransforms == 7

-----------------------------------------------------------------------------
(* 32-bit words *)
Bits(n) == {i \in 0..30 : (n \div (2^i)) % 2 = 1}

RECURSIVE Value(_)
Value(w) == IF w = {} THEN 0
            ELSE LET i == CHOOSE j \in w : TRUE IN 2^i + Value(w \ {i})

Shl(w, n) == {i + n : i \in w} \cap (0..31)

Shr(w, n) == {i - n : i \in w} \cap (0..31)

Low16(w) == w \cap (0..15)

High16(w) == Shr(w, 16)

-----------------------------------------------------------------------------
(* Constants of the translation unit and of the headers it includes *)
SK_MaxU16 == 65535

kR_GrColorComponentFlag == 1
kG_GrColorComponentFlag == 2
kB_GrColorComponentFlag == 4
kA_GrColorComponentFlag == 8
kRGB_GrColorComponentFlags ==
    kR_GrColorComponentFlag + kG_GrColorComponentFlag + kB_GrColorComponentFlag

kMatrixTypeKeyBits == 1
kMatrixTypeKeyMask == 2^kMatrixTypeKeyBits - 1
kPrecisionBits == 2
kPrecisionShift == kMatrixTypeKeyBits
kPositionCoords_Flag == 2^(kPrecisionShift + kPrecisionBits)
kDeviceCoords_Flag == kPositionCoords_Flag + kPositionCoords_Flag
kTransformKeyBits == kMatrixTypeKeyBits + kPrecisionBits + 2

kNoPersp_MatrixType == 0
kGeneral_MatrixType == 1

kLow_GrSLPrecision == 0
kMedium_GrSLPrecision == 1
kHigh_GrSLPrecision == 2
kGrSLPrecisionCount == kHigh_GrSLPrecision + 1

kLocal_GrCoordSet == "kLocal_GrCoordSet"
kDevice_GrCoordSet == "kDevice_GrCoordSet"

kHeaderOffset == 0
kHeaderSize == 8
kProcessorKeysOffset == kHeaderOffset + kHeaderSize

kMetaKeyInvalidMask == (0..31) \ Bits(SK_MaxU16)

-----------------------------------------------------------------------------
(* swizzle_requires_alpha_remapping *)
(* as below, but mapping a to r whether or not the red path exists *)
remapping_IgnoresRedSupport(c, configComponentMask, swizzleComponentMask) ==
    IF c.textureSwizzleSupport
    THEN FALSE
    ELSE IF Bits(kA_GrColorComponentFlag) = configComponentMask
         THEN IF (Bits(kA_GrColorComponentFlag) \cap swizzleComponentMask) # {}
              THEN TRUE
              ELSE IF (Bits(kRGB_GrColorComponentFlags) \cap swizzleComponentMask) # {}
                   THEN TRUE
                   ELSE FALSE
         ELSE FALSE

swizzle_requires_alpha_remapping(c, configComponentMask, swizzleComponentMask) ==
    IF c.textureSwizzleSupport
    THEN FALSE
    ELSE IF Bits(kA_GrColorComponentFlag) = configComponentMask
         THEN IF c.textureRedSupport
                 /\ (Bits(kA_GrColorComponentFlag) \cap swizzleComponentMask) # {}
              THEN TRUE
              ELSE IF (Bits(kRGB_GrColorComponentFlags) \cap swizzleComponentMask) # {}
                   THEN TRUE
                   ELSE FALSE
         ELSE FALSE

(* gen_texture_key: the loop over the texture accesses, from slot t on *)
RECURSIVE TextureKeyLoop(_, _, _, _)
TextureKeyLoop(proc, c, t, key) ==
    IF t >= Len(proc.textures)
    THEN key
    ELSE LET access == proc.textures[t + 1]
         IN TextureKeyLoop(proc, c, t + 1,
               IF swizzle_requires_alpha_remapping(c, access.config, access.swizzleMask)
               THEN key \cup Shl(Bits(1), t)
               ELSE key)

gen_texture_key(proc, c) == TextureKeyLoop(proc, c, 0, {})

-----------------------------------------------------------------------------
(* gen_transform_key.  The result is the set of outcomes the build can     *)
(* produce: a shift of a uint32_t by 32 or more is undefined, and the      *)
(* common targets either reduce the count modulo 32 or yield 0.            *)
(* asserted is FALSE when the SkASSERT of the loop has seen an overlap.    *)
TransformField(stage, t, useExplicitLocalCoords) ==
    LET coordTransform == stage.transforms[t + 1]
        matrix == IF coordTransform.isPerspective
                  THEN Bits(kGeneral_MatrixType)
                  ELSE Bits(kNoPersp_MatrixType)
        source == IF kLocal_GrCoordSet = coordTransform.sourceCoords
                     /\ ~useExplicitLocalCoords
                  THEN Bits(kPositionCoords_Flag)
                  ELSE IF kDevice_GrCoordSet = coordTransform.sourceCoords
                       THEN Bits(kDeviceCoords_Flag)
                       ELSE {}
    IN matrix \cup source \cup Shl(Bits(coordTransform.precision), kPrecisionShift)

ShiftOutcomes(key, n) ==
    IF n < 32 THEN {Shl(key, n)} ELSE {Shl(key, n % 32), {}}

RECURSIVE TransformKeyLoop(_, _, _, _, _)
TransformKeyLoop(stage, useExplicitLocalCoords, t, totalKey, asserted) ==
    IF t >= Len(stage.transforms)
    THEN {[key |-> totalKey, asserted |-> asserted]}
    ELSE UNION {TransformKeyLoop(stage, useExplicitLocalCoords, t + 1,
                                 totalKey \cup key,
                                 asserted /\ (totalKey \cap key) = {}) :
                key \in ShiftOutcomes(
                           TransformField(stage, t, useExplicitLocalCoords),
                           kTransformKeyBits * t)}

gen_transform_key(stage, useExplicitLocalCoords) ==
    TransformKeyLoop(stage, useExplicitLocalCoords, 0, {}, TRUE)

-----------------------------------------------------------------------------
(* GrProcessorKeyBuilder: it appends to desc->fKey and counts the words    *)
(* appended through it since it was constructed.                           *)
BuilderSize(count) == 4 * count

add32n(key, words) == key \o words

(* getGLProcessorKey of a processor: the words of its private key *)
getGLProcessorKey(proc) == proc.key \o [i \in 1..proc.pad |-> {}]

SkToU16(n) == Low16(Bits(n))

(* as get_meta_key, without the test of processorKeySize *)
get_meta_key_NoSizeCheck(proc, c, transformKey, key, count) ==
    LET processorKeySize == BuilderSize(count)
        textureKey == gen_texture_key(proc, c)
        classID == Bits(proc.classID)
    IN IF ((textureKey \cup transformKey \cup classID) \cap kMetaKeyInvalidMask) # {}
       THEN [ok |-> FALSE, key |-> key, count |-> count,
             textureKey |-> textureKey, processorKeySize |-> processorKeySize]
       ELSE [ok |-> TRUE,
             key |-> add32n(key, <<Shl(textureKey, 16) \cup transformKey,
                                   Shl(classID, 16) \cup SkToU16(processorKeySize)>>),
             count |-> count + 2,
             textureKey |-> textureKey, processorKeySize |-> processorKeySize]

(* as get_meta_key, with transformKey left out of the 16-bit test *)
get_meta_key_IgnoresTransformKey(proc, c, transformKey, key, count) ==
    LET processorKeySize == BuilderSize(count)
        textureKey == gen_texture_key(proc, c)
        classID == Bits(proc.classID)
    IN IF ((textureKey \cup classID) \cap kMetaKeyInvalidMask) # {}
       THEN [ok |-> FALSE, key |-> key, count |-> count,
             textureKey |-> textureKey, processorKeySize |-> processorKeySize]
       ELSE IF processorKeySize > SK_MaxU16
            THEN [ok |-> FALSE, key |-> key, count |-> count,
                  textureKey |-> textureKey, processorKeySize |-> processorKeySize]
            ELSE [ok |-> TRUE,
                  key |-> add32n(key, <<Shl(textureKey, 16) \cup transformKey,
                                        Shl(classID, 16) \cup SkToU16(processorKeySize)>>),
                  count |-> count + 2,
                  textureKey |-> textureKey, processorKeySize |-> processorKeySize]

(* get_meta_key on builder state <<key, count>>: the value returned (ok), *)
(* the builder state it leaves, and its locals textureKey and             *)
(* processorKeySize.                                                       *)
get_meta_key(proc, c, transformKey, key, count) ==
    LET processorKeySize == BuilderSize(count)
        textureKey == gen_texture_key(proc, c)
        classID == Bits(proc.classID)
    IN IF ((textureKey \cup transformKey \cup classID) \cap kMetaKeyInvalidMask) # {}
       THEN [ok |-> FALSE, key |-> key, count |-> count,
             textureKey |-> textureKey, processorKeySize |-> processorKeySize]
       ELSE IF processorKeySize > SK_MaxU16
            THEN [ok |-> FALSE, key |-> key, count |-> count,
                  textureKey |-> textureKey, processorKeySize |-> processorKeySize]
            ELSE [ok |-> TRUE,
                  key |-> add32n(key, <<Shl(textureKey, 16) \cup transformKey,
                                        Shl(classID, 16) \cup SkToU16(processorKeySize)>>),
                  count |-> count + 2,
                  textureKey |-> textureKey, processorKeySize |-> processorKeySize]

-----------------------------------------------------------------------------
(* The header: GLKeyHeader laid out byte by byte in the header zone *)
HeaderWords(h) ==
    <<Bits(IF h.fUseNvpr THEN 1 ELSE 0) \cup Shl(Bits(h.fDstReadKey), 8)
         \cup Shl(Bits(h.fFragPosKey), 16) \cup Shl(Bits(h.fColorEffectCnt), 24),
      Bits(h.fCoverageEffectCnt)>>

HeaderByte(key, n) ==
    Value(Shr(key[(kHeaderOffset + n) \div 4 + 1], 8 * (n % 4)) \cap (0..7))

ReadHeader(key) ==
    [fUseNvpr |-> HeaderByte(key, 0) # 0,
     fDstReadKey |-> HeaderByte(key, 1),
     fFragPosKey |-> HeaderByte(key, 2),
     fColorEffectCnt |-> HeaderByte(key, 3),
     fCoverageEffectCnt |-> HeaderByte(key, 4)]

(* Values GrGLFragmentShaderBuilder::KeyForDstRead / KeyForFragmentPosition *)
(* may hand back; their numeric scheme belongs to the collaborator.         *)
KeyForDstRead(dstCopyTexture, c) == 0..2

KeyForFragmentPosition(renderTarget, c) == 0..2

IsPathRenderingDrawType(type) == type = "kDrawPath_DrawType"

(* Contents of freshly pushed, not yet written bytes *)
Uninitialized == {{}, 0..31}

-----------------------------------------------------------------------------
(* Inputs *)
Proc(classID, textures, key, pad) ==
    [classID |-> classID, textures |-> textures, key |-> key, pad |-> pad]

Access(config, swizzleMask) == [config |-> config, swizzleMask |-> swizzleMask]

Stage(proc, transforms) == [processor |-> proc, transforms |-> transforms]

Transform(sourceCoords, precision, isPerspective) ==
    [sourceCoords |-> sourceCoords, precision |-> precision,
     isPerspective |-> isPerspective]

OptState(primProc, fragStages, xp, numColorStages, hasGP, dstCopy) ==
    [primProc |-> primProc, fragStages |-> fragStages, xp |-> xp,
     numColorStages |-> numColorStages, hasGeometryProcessor |-> hasGP,
     dstCopy |-> dstCopy, renderTarget |-> "rt"]

numFragmentStages(st) == Len(st.fragStages)

numCoverageStages(st) == numFragmentStages(st) - st.numColorStages

Caps(swizzle, red, path, dstRead) ==
    [textureSwizzleSupport |-> swizzle, textureRedSupport |-> red,
     pathRenderingSupport |-> path, dstReadInShaderSupport |-> dstRead]

DescInfo(localCoord, readsDst, readsFragPos) ==
    [fRequiresLocalCoordAttrib |-> localCoord, fReadsDst |-> readsDst,
     fReadsFragPosition |-> readsFragPos]

ComponentMasks == SUBSET (0..3)

AlphaOnly == Bits(kA_GrColorComponentFlag)
RGBA == Bits(kRGB_GrColorComponentFlags + kA_GrColorComponentFlag)

MetaLike(classID, size) == <<{}, Shl(Bits(classID), 16) \cup Bits(size)>>

TransformTypes ==
    {Transform(src, p, persp) : src \in {kLocal_GrCoordSet, kDevice_GrCoordSet},
                                p \in 0..(kGrSLPrecisionCount - 1),
                                persp \in BOOLEAN}

ZeroTransform == Transform(kLocal_GrCoordSet, kLow_GrSLPrecision, FALSE)
FullTransform == Transform(kDevice_GrCoordSet, kHigh_GrSLPrecision, TRUE)

(* transform lists: a base transform everywhere but at one index *)
TransformLists ==
    {<<>>} \cup
    {[i \in 1..n |-> IF i = k THEN x ELSE base] :
        n \in 1..MaxTransforms, k \in 1..MaxTransforms, x \in TransformTypes,
        base \in {ZeroTransform, FullTransform}}

(* every list of 32 / kTransformKeyBits transforms over three transforms *)
TransformProducts ==
    [1..(32 \div kTransformKeyBits) ->
        {ZeroTransform, FullTransform,
         Transform(kLocal_GrCoordSet, kMedium_GrSLPrecision, TRUE)}]

TextureLists ==
    {<<>>,
     <<Access(AlphaOnly, RGBA), Access(RGBA, RGBA), Access(AlphaOnly, AlphaOnly)>>,
     [i \in 1..(MaxTextures - 1) |-> Access(AlphaOnly, RGBA)],
     [i \in 1..MaxTextures |->
         IF i = MaxTextures THEN Access(AlphaOnly, RGBA) ELSE Access(RGBA, RGBA)]}

PlainPrim == Proc(1, <<>>, <<>>, 0)
PlainXfer == Proc(1, <<>>, <<>>, 0)
PlainFrag == Stage(Proc(3, <<>>, <<{}>>, 0), <<ZeroTransform>>)

PlainOptState == OptState(PlainPrim, <<>>, PlainXfer, 0, FALSE, "NULL")
PlainCaps == Caps(FALSE, FALSE, FALSE, TRUE)
PlainDescInfo == DescInfo(FALSE, FALSE, FALSE)

StageLists(S) ==
    UNION {[1..n -> S] : n \in 0..MaxFragStages}

(* private keys up to the 16-bit size limit *)
LimitWords == (SK_MaxU16 + 1) \div 4

Input(dbg, c, st, info, type) ==
    [SK_DEBUG |-> dbg, caps |-> c, optState |-> st, descInfo |-> info,
     drawType |-> type]

(* every texture configuration of a one-texture primitive processor *)
SwizzleInputs ==
    {Input(TRUE, Caps(sw, red, FALSE, TRUE),
           OptState(Proc(1, <<Access(cm, sm)>>, <<>>, 0), <<>>, PlainXfer,
                    0, FALSE, "NULL"),
           PlainDescInfo, "kDrawTriangles_DrawType") :
        sw \in BOOLEAN, red \in BOOLEAN, cm \in ComponentMasks, sm \in ComponentMasks}

PrimProcs ==
    {Proc(1, tl, <<>>, 0) : tl \in TextureLists}
    \cup {Proc(2, <<>>, <<Bits(7)>>, 0), Proc(SK_MaxU16 + 1, <<>>, <<>>, 0)}

FragStages ==
    {PlainFrag,
     Stage(Proc(4, <<Access(AlphaOnly, RGBA), Access(RGBA, RGBA), Access(AlphaOnly, AlphaOnly)>>, <<>>, 0), <<>>),
     Stage(Proc(5, <<>>, <<Bits(1)>>, 0),
           <<ZeroTransform, ZeroTransform, ZeroTransform, FullTransform>>),
     Stage(Proc(SK_MaxU16 + 4, <<>>, <<>>, 0), <<ZeroTransform>>)}

XferProcs ==
    {PlainXfer,
     Proc(6, <<>>, <<Bits(9), Bits(10)>>, 0),
     Proc(1, <<>>, <<>>, LimitWords - 3),
     Proc(1, <<>>, <<>>, LimitWords - 2),
     Proc(SK_MaxU16 + 7, <<>>, <<>>, 0)}

(* pipelines whose stages succeed or fail in every position *)
StageInputs ==
    {Input(TRUE, Caps(sw, TRUE, FALSE, TRUE),
           OptState(prim, frags, xp, Len(frags), FALSE, "NULL"),
           PlainDescInfo, "kDrawTriangles_DrawType") :
        sw \in BOOLEAN, prim \in PrimProcs, frags \in StageLists(FragStages),
        xp \in XferProcs}

(* one fragment stage over the transform lists *)
TransformInputs ==
    {Input(dbg, PlainCaps,
           OptState(PlainPrim, <<Stage(Proc(3, <<>>, <<{}>>, 0), tl)>>, PlainXfer,
                    1, FALSE, "NULL"),
           DescInfo(local, FALSE, FALSE), "kDrawTriangles_DrawType") :
        dbg \in BOOLEAN, local \in BOOLEAN,
        tl \in TransformLists \cup TransformProducts}

(* the inputs the header is made from *)
HeaderInputs ==
    {Input(dbg, Caps(FALSE, FALSE, path, dstRead),
           OptState(PlainPrim, <<PlainFrag, PlainFrag>>, PlainXfer, nc, gp, copy),
           DescInfo(FALSE, readsDst, readsFragPos), type) :
        dbg \in BOOLEAN, path \in BOOLEAN, dstRead \in BOOLEAN, nc \in 0..2,
        gp \in BOOLEAN, copy \in {"NULL", "dstCopy"}, readsDst \in BOOLEAN,
        readsFragPos \in BOOLEAN,
        type \in {"kDrawTriangles_DrawType", "kDrawPath_DrawType"}}

(* pipelines built one after the other into the same desc *)
PairOptStates ==
    {OptState(prim, frags, xp, Len(frags), FALSE, "NULL") :
        prim \in {PlainPrim, Proc(1, <<>>, MetaLike(1, 0), 0),
                  Proc(2, <<>>, <<>>, 0)},
        frags \in {<<>>, <<PlainFrag>>,
                   <<Stage(Proc(3, <<>>, <<>>, 0), <<ZeroTransform>>)>>,
                   <<Stage(Proc(3, <<>>, MetaLike(1, 8), 0), <<ZeroTransform>>)>>,
                   <<Stage(Proc(3, <<>>, <<>>, 0), <<FullTransform>>)>>},
        xp \in {PlainXfer, Proc(1, <<>>, <<{}>>, 0)}}

PairInputs ==
    {Input(TRUE, PlainCaps, st, PlainDescInfo, "kDrawTriangles_DrawType") :
        st \in PairOptStates}

Inputs == SwizzleInputs \cup StageInputs \cup TransformInputs \cup HeaderInputs
          \cup PairInputs

NoMeta == [valid |-> FALSE, stage |-> 0, transformKey |-> {}, textureKey |-> {},
           size |-> 0, ok |-> FALSE, appended |-> <<>>]

NoPrev == [valid |-> FALSE, ret |-> FALSE, optState |-> PlainOptState, key |-> <<>>]

Init ==
    \E in \in Inputs :
        /\ SK_DEBUG = in.SK_DEBUG
        /\ caps = in.caps
        /\ optState = in.optState
        /\ descInfo = in.descInfo
        /\ drawType = in.drawType
        /\ fKey = <<>>
        /\ fCount = 0
        /\ pc = "call"
        /\ s = 0
        /\ ret = FALSE
        /\ keyed = <<>>
        /\ meta = NoMeta
        /\ prev = NoPrev

inputs == <<SK_DEBUG, caps, optState, descInfo, drawType>>

-----------------------------------------------------------------------------
(* Build, lines 155-162: reset the key, make room for the header, make b *)
Begin ==
    /\ pc = "call"
    /\ \E garbage \in Uninitialized :
          fKey' = [i \in 1..(kProcessorKeysOffset \div 4) |-> garbage]
    /\ fCount' = 0
    /\ s' = 0
    /\ keyed' = <<>>
    /\ meta' = NoMeta
    /\ pc' = "prim"
    /\ UNCHANGED <<inputs, ret, prev>>

(* a stage whose meta-key is emitted before its private key *)
EmitStageMetaFirst(proc, transformKey) ==
    LET words == getGLProcessorKey(proc)
        m == get_meta_key(proc, caps, transformKey, fKey, fCount)
    IN IF m.ok
       THEN [m EXCEPT !.key = m.key \o words, !.count = m.count + Len(words)]
       ELSE m

(* one stage: its private key, then its meta-key *)
EmitStage(proc, transformKey) ==
    LET words == getGLProcessorKey(proc)
    IN get_meta_key(proc, caps, transformKey, fKey \o words, fCount + Len(words))

(* what the call m of get_meta_key for pipeline stage j did *)
MetaCall(j, proc, transformKey, m) ==
    LET before == Len(fKey) + Len(getGLProcessorKey(proc))
    IN [valid |-> TRUE, stage |-> j, transformKey |-> transformKey,
        textureKey |-> m.textureKey, size |-> m.processorKeySize, ok |-> m.ok,
        appended |-> SubSeq(m.key, before + 1, Len(m.key))]

(* a failure return that leaves the key as it is *)
FailKeepsKey ==
    /\ ret' = FALSE
    /\ pc' = "failed"
    /\ UNCHANGED <<fKey, fCount, s>>

(* desc->fKey.reset(); return false; *)
Fail ==
    /\ fKey' = <<>>
    /\ ret' = FALSE
    /\ pc' = "failed"
    /\ UNCHANGED <<fCount, s>>

(* lines 164-169 *)
PrimStage ==
    /\ pc = "prim"
    /\ keyed' = Append(keyed, 0)
    /\ LET m == EmitStage(optState.primProc, {})
       IN /\ meta' = MetaCall(0, optState.primProc, {}, m)
          /\ IF m.ok
             THEN /\ fKey' = m.key
                  /\ fCount' = m.count
                  /\ pc' = "frag"
                  /\ UNCHANGED <<s, ret>>
             ELSE Fail
    /\ UNCHANGED <<inputs, prev>>

(* lines 171-180, one iteration of the loop *)
FragStage ==
    /\ pc = "frag"
    /\ s < numFragmentStages(optState)
    /\ LET fps == optState.fragStages[s + 1]
       IN \E out \in gen_transform_key(fps, descInfo.fRequiresLocalCoordAttrib) :
            IF SK_DEBUG /\ ~out.asserted
            THEN /\ pc' = "aborted"
                 /\ UNCHANGED <<fKey, fCount, s, ret, keyed, meta>>
            ELSE /\ keyed' = Append(keyed, s + 1)
                 /\ LET m == EmitStage(fps.processor, out.key)
                    IN /\ meta' = MetaCall(s + 1, fps.processor, out.key, m)
                       /\ IF m.ok
                          THEN /\ fKey' = m.key
                               /\ fCount' = m.count
                               /\ s' = s + 1
                               /\ UNCHANGED <<pc, ret>>
                          ELSE Fail
    /\ UNCHANGED <<inputs, prev>>

(* lines 182-187 *)
XferStage ==
    /\ pc = "frag"
    /\ s >= numFragmentStages(optState)
    /\ keyed' = Append(keyed, numFragmentStages(optState) + 1)
    /\ LET m == EmitStage(optState.xp, {})
       IN /\ meta' = MetaCall(numFragmentStages(optState) + 1, optState.xp, {}, m)
          /\ IF m.ok
             THEN /\ fKey' = m.key
                  /\ fCount' = m.count
                  /\ pc' = "header"
                  /\ UNCHANGED <<s, ret>>
             ELSE Fail
    /\ UNCHANGED <<inputs, prev>>

(* lines 192-230: zero the header zone, fill it in, finalize *)
WriteHeader(key, h) ==
    [i \in 1..Len(key) |->
        IF i > kHeaderOffset \div 4 /\ i <= (kHeaderOffset + kHeaderSize) \div 4
        THEN HeaderWords(h)[i - kHeaderOffset \div 4]
        ELSE key[i]]

Header ==
    /\ pc = "header"
    /\ LET useNvpr == caps.pathRenderingSupport /\ IsPathRenderingDrawType(drawType)
           dstCopyTexture == IF optState.dstCopy # "NULL" THEN "texture" ELSE "NULL"
       IN \E dstKey \in IF descInfo.fReadsDst
                        THEN KeyForDstRead(dstCopyTexture, caps) ELSE {0},
             fragKey \in IF descInfo.fReadsFragPosition
                         THEN KeyForFragmentPosition(optState.renderTarget, caps)
                         ELSE {0} :
            IF SK_DEBUG
               /\ \/ useNvpr /\ optState.hasGeometryProcessor
                  \/ descInfo.fReadsDst /\ optState.dstCopy = "NULL"
                        /\ ~caps.dstReadInShaderSupport
                  \/ descInfo.fReadsDst /\ dstKey = 0
            THEN /\ pc' = "aborted"
                 /\ UNCHANGED <<fKey, ret>>
            ELSE /\ fKey' = WriteHeader(fKey,
                               [fUseNvpr |-> useNvpr,
                                fDstReadKey |-> dstKey,
                                fFragPosKey |-> fragKey,
                                fColorEffectCnt |-> optState.numColorStages,
                                fCoverageEffectCnt |-> numCoverageStages(optState)])
                 /\ ret' = TRUE
                 /\ pc' = "done"
    /\ UNCHANGED <<inputs, fCount, s, keyed, meta, prev>>

(* Build is called again, with another pipeline, on the same desc *)
Restart ==
    /\ pc \in {"done", "failed"}
    /\ Input(SK_DEBUG, caps, optState, descInfo, drawType) \in PairInputs
    /\ prev' = [valid |-> TRUE, ret |-> ret, optState |-> optState, key |-> fKey]
    /\ \E st \in PairOptStates : optState' = st
    /\ pc' = "call"
    /\ keyed' = <<>>
    /\ meta' = NoMeta
    /\ UNCHANGED <<SK_DEBUG, caps, descInfo, drawType, fKey, fCount, s, ret>>

Next == Begin \/ PrimStage \/ FragStage \/ XferStage \/ Header \/ Restart

Spec == Init /\ [][Next]_vars

TypeOK ==
    /\ pc \in {"call", "prim", "frag", "header", "done", "failed", "aborted"}
    /\ fCount \in Nat
    /\ pc # "call" => s \in 0..numFragmentStages(optState)

-----------------------------------------------------------------------------
(* The stages in pipeline order: stage 0 is the primitive stage, stages    *)
(* 1..n are the fragment stages, stage n + 1 is the transfer stage.        *)
LastStage(st) == numFragmentStages(st) + 1

StageProc(st, j) ==
    IF j = 0 THEN st.primProc
    ELSE IF j = LastStage(st) THEN st.xp
    ELSE st.fragStages[j].processor

PrivateKey(st, j) == getGLProcessorKey(StageProc(st, j))

IsFragStage(st, j) == j >= 1 /\ j <= numFragmentStages(st)

NumTransforms(st, j) ==
    IF IsFragStage(st, j) THEN Len(st.fragStages[j].transforms) ELSE 0

(* word index (1-based) of the first word of segment j in a complete key *)
RECURSIVE SegmentStart(_, _)
SegmentStart(st, j) ==
    IF j = 0 THEN kProcessorKeysOffset \div 4 + 1
    ELSE SegmentStart(st, j - 1) + Len(PrivateKey(st, j - 1)) + 2

(* word n (0 or 1) of the meta-key of segment j *)
MetaWord(st, key, j, n) == key[SegmentStart(st, j) + Len(PrivateKey(st, j)) + n]

Fits16(w) == w \subseteq (0..15)

-----------------------------------------------------------------------------
(* C1: when the meta-key encoding of a stage fails, Build returns failure  *)
(* with an empty key buffer and processes no later stage: a failed Build   *)
(* stopped at the stage whose meta-key did not fit, and a Build that went  *)
(* past a stage had that stage's meta-key fit.                             *)
C1_FailureDiscardsKey ==
    /\ pc = "failed" =>
          /\ fKey = <<>>
          /\ ret = FALSE
          /\ meta.valid /\ ~meta.ok /\ meta.appended = <<>>
          /\ keyed = [i \in 1..(meta.stage + 1) |-> i - 1]
    /\ pc \in {"frag", "header", "done"} => meta.valid /\ meta.ok
    /\ meta.valid /\ ~meta.ok => pc = "failed"

C1_Witness ==
    /\ pc = "failed"
    /\ numFragmentStages(optState) = 2
    /\ meta.stage = LastStage(optState)
    /\ Len(PrivateKey(optState, 1)) > 0

-----------------------------------------------------------------------------
(* C2: get_meta_key fails exactly when the texture key, the transform key  *)
(* or the class identity has a bit above bit 15 or the recorded size       *)
(* exceeds 65535, and then appends nothing; otherwise it appends exactly   *)
(* two words from which the four 16-bit fields read back unchanged.        *)
C2_MetaKeyFieldsFit ==
    meta.valid =>
        LET classID == StageProc(optState, meta.stage).classID
            overflow == \/ ~Fits16(meta.textureKey)
                        \/ ~Fits16(meta.transformKey)
                        \/ classID > 65535
                        \/ meta.size > 65535
        IN /\ meta.ok <=> ~overflow
           /\ ~meta.ok => meta.appended = <<>>
           /\ meta.ok =>
                 /\ Len(meta.appended) = 2
                 /\ High16(meta.appended[1]) = meta.textureKey
                 /\ Low16(meta.appended[1]) = meta.transformKey
                 /\ Value(High16(meta.appended[2])) = classID
                 /\ Value(Low16(meta.appended[2])) = meta.size

C2_Witness ==
    /\ meta.valid
    /\ ~meta.ok
    /\ meta.size > 65535
    /\ Fits16(meta.textureKey \cup meta.transformKey)
    /\ StageProc(optState, meta.stage).classID <= 65535

-----------------------------------------------------------------------------
(* C3: after a successful Build the key is the header zone followed by one *)
(* segment per stage in pipeline order (primitive, fragment stages in      *)
(* declaration order, transfer), each the stage's private key immediately  *)
(* followed by its two-word meta-key, and nothing else.                    *)
C3_SegmentsInPipelineOrder ==
    pc = "done" /\ ret =>
        /\ Len(fKey) = SegmentStart(optState, LastStage(optState) + 1) - 1
        /\ keyed = [i \in 1..(LastStage(optState) + 1) |-> i - 1]
        /\ \A j \in 0..LastStage(optState) :
              LET from == SegmentStart(optState, j)
                  pk == PrivateKey(optState, j)
              IN /\ SubSeq(fKey, from, from + Len(pk) - 1) = pk
                 /\ High16(MetaWord(optState, fKey, j, 0))
                       = gen_texture_key(StageProc(optState, j), caps)
                 /\ Value(High16(MetaWord(optState, fKey, j, 1)))
                       = StageProc(optState, j).classID
                 /\ IsFragStage(optState, j) =>
                       \E out \in gen_transform_key(optState.fragStages[j],
                                                    descInfo.fRequiresLocalCoordAttrib) :
                           Low16(MetaWord(optState, fKey, j, 0)) = out.key
                 /\ ~IsFragStage(optState, j) =>
                       Low16(MetaWord(optState, fKey, j, 0)) = {}

C3_Witness ==
    /\ pc = "done"
    /\ ret
    /\ numFragmentStages(optState) = 2
    /\ optState.fragStages[1] # optState.fragStages[2]
    /\ Len(PrivateKey(optState, 1)) > 0
    /\ Len(PrivateKey(optState, LastStage(optState))) > 0

-----------------------------------------------------------------------------
(* C5: in every stage's meta-key the low 16 bits of word 1 are the byte    *)
(* length of that stage's own private key, whatever earlier stages wrote.  *)
C5_SizeFieldIsOwnKeyLength ==
    pc = "done" /\ ret =>
        \A j \in 0..LastStage(optState) :
            Value(Low16(MetaWord(optState, fKey, j, 1)))
                = 4 * Len(PrivateKey(optState, j))

-----------------------------------------------------------------------------
(* C6: bit t of a stage's texture key is set iff hardware swizzle is not   *)
(* supported, the texture of slot t is alpha-only, and the swizzle either  *)
(* reads alpha with read-alpha-as-red supported or reads red, green or     *)
(* blue; no other bit is set.                                              *)
C6_RemapTruthTable ==
    meta.valid =>
        LET textures == StageProc(optState, meta.stage).textures
        IN /\ meta.textureKey \subseteq 0..(Len(textures) - 1)
           /\ \A t \in 0..(Len(textures) - 1) :
                 t \in meta.textureKey <=>
                    /\ ~caps.textureSwizzleSupport
                    /\ textures[t + 1].config = {3}
                    /\ \/ caps.textureRedSupport /\ 3 \in textures[t + 1].swizzleMask
                       \/ textures[t + 1].swizzleMask \cap {0, 1, 2} # {}

C6_Witness ==
    /\ meta.valid
    /\ ~caps.textureSwizzleSupport
    /\ caps.textureRedSupport
    /\ StageProc(optState, meta.stage).textures = <<Access({3}, {3})>>
    /\ meta.textureKey = {0}

-----------------------------------------------------------------------------
(* The encoded fields of every stage of a pipeline *)
EncodedFields(st) ==
    [i \in 1..(LastStage(st) + 1) |->
        LET j == i - 1
        IN [classID |-> StageProc(st, j).classID,
            textureKey |-> gen_texture_key(StageProc(st, j), caps),
            transformKey |->
                IF IsFragStage(st, j)
                THEN {out.key : out \in gen_transform_key(st.fragStages[j],
                                            descInfo.fRequiresLocalCoordAttrib)}
                ELSE {{}},
            privateKey |-> PrivateKey(st, j)]]

(* C4: two successful Builds over the same capabilities whose pipelines    *)
(* differ in an encoded field of a stage (class identity, texture bits,    *)
(* transform bits, private-key bytes) produce different keys.              *)
C4_DistinctConfigurationsDistinctKeys ==
    /\ prev.valid /\ prev.ret
    /\ pc = "done" /\ ret
    /\ EncodedFields(prev.optState) # EncodedFields(optState)
    => prev.key # fKey

-----------------------------------------------------------------------------
(* pc = "aborted" with j stages keyed: the SkASSERT of gen_transform_key   *)
(* fired while fragment stage j was being encoded.                         *)
AbortedInStage(j) == pc = "aborted" /\ Len(keyed) = j /\ IsFragStage(optState, j)

OtherFieldsFit(j) ==
    /\ Fits16(meta.textureKey)
    /\ StageProc(optState, j).classID <= 65535
    /\ meta.size <= 65535

(* C7 as stated: a fragment stage with 32 / 5 = 6 transforms never fails   *)
(* the overlap check and is encoded successfully, for every choice of its  *)
(* transforms.                                                             *)
C7_SixTransformsAlwaysBuild ==
    \A j \in 1..numFragmentStages(optState) :
        NumTransforms(optState, j) = 6 =>
            /\ ~AbortedInStage(j)
            /\ meta.valid /\ meta.stage = j /\ OtherFieldsFit(j) => meta.ok

(* C7 amended: a fragment stage with 6 transforms never fails the overlap  *)
(* check and its transform key holds the six sub-fields side by side in    *)
(* bits 0..29; its meta-key is encoded iff that key has no bit above bit   *)
(* 15 (and the other meta-key fields fit), otherwise get_meta_key fails.   *)
C7_SixTransformsBuildIffKeyFits ==
    \A j \in 1..numFragmentStages(optState) :
        NumTransforms(optState, j) = 6 =>
            /\ ~AbortedInStage(j)
            /\ meta.valid /\ meta.stage = j =>
                  /\ meta.transformKey \subseteq 0..29
                  /\ \A t \in 0..5 :
                        Shr(meta.transformKey, 5 * t) \cap (0..4)
                            = TransformField(optState.fragStages[j], t,
                                             descInfo.fRequiresLocalCoordAttrib)
                  /\ meta.ok <=> Fits16(meta.transformKey) /\ OtherFieldsFit(j)

C7_Witness ==
    /\ pc = "done"
    /\ ret
    /\ NumTransforms(optState, 1) = 6
    /\ 15 \in Low16(MetaWord(optState, fKey, 1, 0))

-----------------------------------------------------------------------------
(* C8: a fragment stage with 7 transforms trips the overlap check for      *)
(* every choice of its transforms, so a build with assertions never gets   *)
(* to its meta-key, and no build returns a transform key for it from which *)
(* bits of a sub-field are missing.                                        *)
C8_SevenTransformsHitOverlapCheck ==
    \A j \in 1..numFragmentStages(optState) :
        NumTransforms(optState, j) = 7 /\ meta.valid /\ meta.stage = j =>
            /\ ~SK_DEBUG
            /\ \A t \in 0..6 :
                  {i + 5 * t : i \in TransformField(optState.fragStages[j], t,
                                        descInfo.fRequiresLocalCoordAttrib)}
                     \subseteq meta.transformKey

-----------------------------------------------------------------------------
(* C9: after a successful Build the destination-read encoding of the       *)
(* header is nonzero iff the flags say the destination is read, and the    *)
(* fragment-position encoding is nonzero iff the flags say the fragment    *)
(* position is read.                                                       *)
C9_HeaderEncodingsMatchFlags ==
    pc = "done" /\ ret =>
        /\ ReadHeader(fKey).fDstReadKey # 0 <=> descInfo.fReadsDst
        /\ ReadHeader(fKey).fFragPosKey # 0 <=> descInfo.fReadsFragPosition

-----------------------------------------------------------------------------
(* C10: for every transform index t of a fragment stage, bits 5t..5t+4 of  *)
(* the transform key hold the matrix-type bit (1 iff perspective), the     *)
(* precision, the position flag (source is local coordinates and explicit  *)
(* local coordinates are not in use) and the device flag (source is device *)
(* coordinates); the two flags are never both set.                         *)
C10_TransformSubFields ==
    meta.valid /\ IsFragStage(optState, meta.stage) =>
        \A t \in 0..(NumTransforms(optState, meta.stage) - 1) :
            LET x == optState.fragStages[meta.stage].transforms[t + 1]
                bit(i) == (5 * t + i) \in meta.transformKey
            IN /\ bit(0) <=> x.isPerspective
               /\ x.precision = (IF bit(1) THEN 1 ELSE 0) + (IF bit(2) THEN 2 ELSE 0)
               /\ bit(3) <=> /\ x.sourceCoords = kLocal_GrCoordSet
                             /\ ~descInfo.fRequiresLocalCoordAttrib
               /\ bit(4) <=> x.sourceCoords = kDevice_GrCoordSet
               /\ ~(bit(3) /\ bit(4))

(* The same layout, for the transform indices whose sub-field lies inside  *)
(* the 32-bit key (t < 32 / 5) and is not reached by an undefined shift.   *)
TransformSubFieldsInsideWord ==
    meta.valid /\ IsFragStage(optState, meta.stage)
               /\ NumTransforms(optState, meta.stage) <= 7 =>
        \A t \in 0..(NumTransforms(optState, meta.stage) - 1) :
            t < 6 =>
               LET x == optState.fragStages[meta.stage].transforms[t + 1]
                   bit(i) == (5 * t + i) \in meta.transformKey
               IN /\ bit(0) <=> x.isPerspective
                  /\ x.precision = (IF bit(1) THEN 1 ELSE 0) + (IF bit(2) THEN 2 ELSE 0)
                  /\ bit(3) <=> /\ x.sourceCoords = kLocal_GrCoordSet
                                /\ ~descInfo.fRequiresLocalCoordAttrib
                  /\ bit(4) <=> x.sourceCoords = kDevice_GrCoordSet
                  /\ ~(bit(3) /\ bit(4))

====
